---- MODULE Spec2Model ----
(***************************************************************************)
(* LightFieldWidget (src/viewer/light_field_widget.cpp) as a state machine. *)
(*                                                                         *)
(* The widget is single threaded: every handler runs to completion on the  *)
(* UI thread, so each handler is one atomic action.                        *)
(*                                                                         *)
(* Numbers.  cameraPosition is a pair of doubles.  Widget widths and       *)
(* heights are 1 or 2 pixels, so every drag delta (pointer offset /        *)
(* min(width, height)) is a multiple of 1/Den with Den = 2, and the double *)
(* arithmetic of mouseMoveEvent is exact.  A camera coordinate is stored   *)
(* as its numerator over Den.                                              *)
(* focus and aperture are floats that are only stored and passed on; they  *)
(* are drawn from small integers.                                          *)
(***************************************************************************)
EXTENDS Integers, Sequences, FiniteSets, TLC

\* ------------------------------------------------------------------ bounds
\* Pointer coordinates of the drag specification lie in -MaxPos..MaxPos.
MaxPos == 1
\* Values given to setFocusPoint / setApertureSize in the render specification.
MaxValue == 1
\* Longest list handed to setLightField in the load specification.
MaxViews == 3

\* ------------------------------------------------------- program constants
indexBufferSize == 6
HintHeight == 512
DefaultAperture == 5
DefaultFocus == 0

\* Denominator of camera coordinates: the least common multiple of the widget sizes.
Den == 1 + 1

Min(a, b) == IF b < a THEN b ELSE a
Max(a, b) == IF a < b THEN b ELSE a

VARIABLES
    pc,               \* "running", or how the process ended: "exited" (exit(1)),
                      \* "aborted" (std::abort), "crashed" (fault after an out-of-bounds store)
    shaderProgram,    \* "null" before initializeGL, then "linked" or "unlinked"
    focus,
    aperture,
    lfRows,
    lfCols,
    imageSize,        \* <<width, height>>
    cameraPosition,   \* <<x, y>>, numerators over Den
    isClick,
    prevMouseClick,   \* <<x, y>> in pixels
    geometry,         \* <<width(), height()>> of the widget
    lightFieldTexture,\* <<>> when null, else <<[width, height, depth, data]>>
    imageData,        \* the local buffer of the most recent setLightField call
    oobWrites,        \* offsets that call stored to outside the buffer
    handler,          \* name of the handler dispatched most recently
    glCalls,          \* the GPU commands that handler issued, in order
    lastLoad,         \* <<>>, or <<[viewInfos, rows, cols]>>: arguments of the most recent setLightField call
    loaded,           \* whether some setLightField call has returned
    lastSetFocus,     \* value most recently given to setFocusPoint (DefaultFocus if none)
    lastSetAperture   \* value most recently given to setApertureSize (DefaultAperture if none)

vars == <<pc, shaderProgram, focus, aperture, lfRows, lfCols, imageSize, cameraPosition,
          isClick, prevMouseClick, geometry, lightFieldTexture, imageData, oobWrites,
          handler, glCalls, lastLoad, loaded, lastSetFocus, lastSetAperture>>

\* Variables no mouse handler touches.
loadVars == <<lfRows, lfCols, imageSize, lightFieldTexture, imageData, oobWrites, lastLoad, loaded>>
paramVars == <<focus, aperture, lastSetFocus, lastSetAperture>>
mouseVars == <<cameraPosition, isClick, prevMouseClick>>

\* A GPU command: its name, the uniform or object it names, and its integer operands.
Call(c, n, v) == [call |-> c, name |-> n, val |-> v]

Buttons == {"LeftButton", "RightButton"}

\* --------------------------------------------------------------------- Init
Init ==
    /\ pc = "running"
    /\ shaderProgram = "null"
    /\ focus = DefaultFocus
    /\ aperture = DefaultAperture
    /\ lfRows = 0
    /\ lfCols = 0
    /\ imageSize = <<1, 1>>
    /\ cameraPosition = <<Den \div 2, Den \div 2>>
    /\ isClick = FALSE
    /\ prevMouseClick = <<0, 0>>
    /\ geometry = <<1, 1>>
    /\ lightFieldTexture = <<>>
    /\ imageData = <<>>
    /\ oobWrites = {}
    /\ handler = "LightFieldWidget"
    /\ glCalls = <<>>
    /\ lastLoad = <<>>
    /\ loaded = FALSE
    /\ lastSetFocus = DefaultFocus
    /\ lastSetAperture = DefaultAperture

\* sizeHint with the quotient rounded to nearest instead of truncated.
sizeHintRounded ==
    <<(HintHeight * imageSize[1] + imageSize[2] \div 2) \div imageSize[2], HintHeight>>

\* ----------------------------------------------------------------- sizeHint
sizeHint == <<(HintHeight * imageSize[1]) \div imageSize[2], HintHeight>>

minimumSizeHint == sizeHint

focusPoint == focus

apertureSize == aperture

\* ------------------------------------------------------------- initializeGL
\* Commands of a successful initializeGL: clear colour, the quad's VAO, VBO and IBO.
InitCalls ==
    << Call("glClearColor", "", <<0, 0, 0, 1>>),
       Call("bindVAO", "vao", <<>>),
       Call("allocate", "vbo", <<4>>),
       Call("glEnableVertexAttribArray", "", <<0>>),
       Call("glEnableVertexAttribArray", "", <<1>>),
       Call("allocate", "ibo", <<indexBufferSize>>),
       Call("releaseVAO", "vao", <<>>) >>

\* Runs once, when the GPU context exists.  isLinked() is the toolkit's answer.
InitializeGL(isLinked) ==
    /\ pc = "running"
    /\ shaderProgram = "null"
    /\ handler' = "initializeGL"
    /\ IF isLinked
       THEN /\ shaderProgram' = "linked"
            /\ glCalls' = InitCalls
            /\ pc' = pc
       ELSE /\ shaderProgram' = "unlinked"
            /\ glCalls' = <<Call("glClearColor", "", <<0, 0, 0, 1>>)>>
            /\ pc' = "exited"
    /\ UNCHANGED <<loadVars, paramVars, mouseVars, geometry>>

\* ----------------------------------------------------------------- resizeGL
\* The toolkit resizes the widget and calls resizeGL with the new size.
ResizeGL(width, height) ==
    /\ pc = "running"
    /\ shaderProgram = "linked"
    /\ handler' = "resizeGL"
    /\ geometry' = <<width, height>>
    /\ glCalls' = <<Call("glViewport", "", <<0, 0, width, height>>)>>
    /\ UNCHANGED <<pc, shaderProgram, loadVars, paramVars, mouseVars>>

\* ------------------------------------------------------------------ paintGL
\* Commands of a render pass with a texture loaded, in the order of the code.
PaintCalls ==
    << Call("glClear", "", <<>>),
       Call("bindShader", "shaderProgram", <<>>),
       Call("setUniformValue", "focusPoint", <<focus>>),
       Call("setUniformValue", "apertureSize", <<aperture>>),
       Call("setUniformValue", "cameraPositionX", <<cameraPosition[1]>>),
       Call("setUniformValue", "cameraPositionY", <<cameraPosition[2]>>),
       Call("bindTexture", "lightFieldTexture",
            <<lightFieldTexture[1].width, lightFieldTexture[1].height, lightFieldTexture[1].depth>>),
       Call("setUniformValue", "textureImages", <<0>>),
       Call("setUniformValue", "focusPoint", <<focus>>),
       Call("setUniformValue", "apertureSize", <<aperture>>),
       Call("setUniformValue", "rows", <<lfRows>>),
       Call("setUniformValue", "cols", <<lfCols>>),
       Call("bindVAO", "vao", <<>>),
       Call("glDrawElements", "", <<indexBufferSize>>),
       Call("releaseVAO", "vao", <<>>),
       Call("releaseTexture", "lightFieldTexture", <<>>) >>

\* paintGL with the null check guarding only the texture: the pass still clears,
\* binds the shader and draws while nothing is loaded.
PaintGLCallsLateCheck ==
    IF lightFieldTexture = <<>>
    THEN << Call("glClear", "", <<>>),
            Call("bindShader", "shaderProgram", <<>>),
            Call("setUniformValue", "focusPoint", <<focus>>),
            Call("glDrawElements", "", <<indexBufferSize>>) >>
    ELSE PaintCalls

\* What paintGL issues: nothing at all while no texture is loaded.
PaintGLCalls == IF lightFieldTexture = <<>> THEN <<>> ELSE PaintCalls

PaintGL ==
    /\ pc = "running"
    /\ shaderProgram = "linked"
    /\ handler' = "paintGL"
    /\ glCalls' = PaintGLCalls
    /\ UNCHANGED <<pc, shaderProgram, loadVars, paramVars, mouseVars, geometry>>

\* ------------------------------------------------------------- mouse events
mousePressClick(button) == IF button = "LeftButton" THEN TRUE ELSE isClick

mousePressPos(pos, button) == IF button = "LeftButton" THEN pos ELSE prevMouseClick

MousePressEvent(pos, button) ==
    /\ pc = "running"
    /\ handler' = "mousePressEvent"
    /\ isClick' = mousePressClick(button)
    /\ prevMouseClick' = mousePressPos(pos, button)
    /\ glCalls' = <<>>
    /\ UNCHANGED <<pc, shaderProgram, loadVars, paramVars, cameraPosition, geometry>>

\* The clamp without its lower bound.
ClampUpperOnly(v) == Min(v, Den)

\* std::max(0.0, std::min(v, 1.0)) on numerators over Den.
Clamp(v) == Max(0, Min(v, Den))

\* (double)(a - b) / size as a numerator over Den; size divides Den.
DragDelta(a, b) == (a - b) * (Den \div Min(geometry[1], geometry[2]))

\* A move handler that makes the pointer position the new base point.
moveBasePointTracking(pos) == pos

\* The position recorded as the drag's base point after a move event.
moveBasePoint(pos) == prevMouseClick

\* A move handler that pans while any button is held.
moveCameraAnyButton(pos, buttons) ==
    IF buttons # {} /\ isClick
    THEN << Clamp(cameraPosition[1] + DragDelta(pos[1], prevMouseClick[1])),
            Clamp(cameraPosition[2] + DragDelta(pos[2], prevMouseClick[2])) >>
    ELSE cameraPosition

\* The camera position after a move event.
moveCamera(pos, buttons) ==
    IF "LeftButton" \in buttons /\ isClick
    THEN << Clamp(cameraPosition[1] + DragDelta(pos[1], prevMouseClick[1])),
            Clamp(cameraPosition[2] + DragDelta(pos[2], prevMouseClick[2])) >>
    ELSE cameraPosition

MouseMoveEvent(pos, buttons) ==
    /\ pc = "running"
    /\ handler' = "mouseMoveEvent"
    /\ cameraPosition' = moveCamera(pos, buttons)
    /\ prevMouseClick' = moveBasePoint(pos)
    /\ glCalls' = <<>>
    /\ UNCHANGED <<pc, shaderProgram, loadVars, paramVars, isClick, geometry>>

mouseReleaseClick(button) == IF button = "LeftButton" THEN FALSE ELSE isClick

MouseReleaseEvent(pos, button) ==
    /\ pc = "running"
    /\ handler' = "mouseReleaseEvent"
    /\ isClick' = mouseReleaseClick(button)
    /\ glCalls' = <<>>
    /\ UNCHANGED <<pc, shaderProgram, loadVars, paramVars, cameraPosition, prevMouseClick, geometry>>

\* ------------------------------------------------- focus, aperture, animate
SetFocusPoint(value) ==
    /\ pc = "running"
    /\ handler' = "setFocusPoint"
    /\ focus' = value
    /\ lastSetFocus' = value
    /\ glCalls' = <<>>
    /\ UNCHANGED <<pc, shaderProgram, loadVars, mouseVars, geometry, aperture, lastSetAperture>>

\* setApertureSize assigning to focus.
SetApertureSizeIntoFocus(value) ==
    /\ pc = "running"
    /\ handler' = "setApertureSize"
    /\ focus' = value
    /\ lastSetAperture' = value
    /\ glCalls' = <<>>
    /\ UNCHANGED <<pc, shaderProgram, loadVars, mouseVars, geometry, aperture, lastSetFocus>>

SetApertureSize(value) ==
    /\ pc = "running"
    /\ handler' = "setApertureSize"
    /\ aperture' = value
    /\ lastSetAperture' = value
    /\ glCalls' = <<>>
    /\ UNCHANGED <<pc, shaderProgram, loadVars, mouseVars, geometry, focus, lastSetFocus>>

\* The timer's slot: update() only asks the toolkit for a repaint.
Animate ==
    /\ pc = "running"
    /\ handler' = "animate"
    /\ glCalls' = <<>>
    /\ UNCHANGED <<pc, shaderProgram, loadVars, paramVars, mouseVars, geometry>>

\* ------------------------------------------------------------ setLightField
\* The image files on disk.  A path is a number; path 0 does not decode (QImage
\* is null, 0 x 0).  Paths 2c-1 and 2c hold two different images of size class c.
SizeClasses == << <<2, 1>>, <<1, 3>>, <<2, 2>>, <<3, 1>> >>

FileClass(path) == (((path + 1) \div 2 - 1) % Len(SizeClasses)) + 1

ImageIsNull(path) == path = 0

ImageWidth(path) == IF ImageIsNull(path) THEN 0 ELSE SizeClasses[FileClass(path)][1]

ImageHeight(path) == IF ImageIsNull(path) THEN 0 ELSE SizeClasses[FileClass(path)][2]

\* img.pixelColor(x, y) of the image at `path`: channel c (0 red, 1 green, 2 blue),
\* a value in 0..255 that differs between files, pixels and channels.
PixelColor(path, x, y, c) == (path * 40 + y * 9 + x * 3 + c) % 256

\* (uint8_t) of a channel value.
ToUint8(v) == v % 256

\* The index with x and y exchanged.
OffsetTransposed(k, y, x, c, imageW, imageH) == ((k * imageH + x) * imageW + y) * 3 + c

\* Index of the byte of view k, pixel (x, y), channel c in the flat buffer.
Offset(k, y, x, c, imageW, imageH) == ((k * imageH + y) * imageW + x) * 3 + c

\* Size of the flat buffer.
BufferSize(rows, cols, imageW, imageH) == (rows * cols) * imageH * imageW * 3

\* Upper bound of the loop over the views (k runs over 0 .. LoopBound - 1).
LoopBound(viewInfos, rows, cols) == Len(viewInfos)

\* Number of views the loop copies before it meets one of another size (or ends).
RECURSIVE Copied(_, _, _, _, _)
Copied(viewInfos, k, bound, imageW, imageH) ==
    IF k >= bound THEN k
    ELSE IF ImageWidth(viewInfos[k + 1]) # imageW \/ ImageHeight(viewInfos[k + 1]) # imageH
         THEN k
         ELSE Copied(viewInfos, k + 1, bound, imageW, imageH)

\* The vector while the loop runs: its bytes, the offsets of the stores that fell
\* outside it, and whether the process has faulted on such a store.
Vector(size) == [data |-> [i \in 0 .. size - 1 |-> 0], oob |-> {}, stop |-> FALSE]

\* imageData[off] = v.  operator[] checks nothing: a store outside the vector
\* does not land in it, and with `fault` it ends the process.
Store(buf, off, v, fault) ==
    IF buf.stop THEN buf
    ELSE IF off \in DOMAIN buf.data
         THEN [buf EXCEPT !.data[off] = v]
         ELSE [buf EXCEPT !.oob = @ \cup {off}, !.stop = fault]

\* The three stores of one pixel (the body of the x loop).
CopyPixel(buf, path, k, y, x, imageW, imageH, fault) ==
    Store(Store(Store(buf,
        Offset(k, y, x, 0, imageW, imageH), ToUint8(PixelColor(path, x, y, 0)), fault),
        Offset(k, y, x, 1, imageW, imageH), ToUint8(PixelColor(path, x, y, 1)), fault),
        Offset(k, y, x, 2, imageW, imageH), ToUint8(PixelColor(path, x, y, 2)), fault)

\* for (x = x0; x < imageW; x++)
RECURSIVE CopyRow(_, _, _, _, _, _, _, _)
CopyRow(buf, path, k, y, x, imageW, imageH, fault) ==
    IF x >= imageW THEN buf
    ELSE CopyRow(CopyPixel(buf, path, k, y, x, imageW, imageH, fault),
                 path, k, y, x + 1, imageW, imageH, fault)

\* for (y = y0; y < imageH; y++)
RECURSIVE CopyImage(_, _, _, _, _, _, _)
CopyImage(buf, path, k, y, imageW, imageH, fault) ==
    IF y >= imageH THEN buf
    ELSE CopyImage(CopyRow(buf, path, k, y, 0, imageW, imageH, fault),
                   path, k, y + 1, imageW, imageH, fault)

\* The views k .. n-1 copied into buf, in order.
RECURSIVE CopyViews(_, _, _, _, _, _, _)
CopyViews(buf, viewInfos, k, n, imageW, imageH, fault) ==
    IF k >= n THEN buf
    ELSE CopyViews(CopyImage(buf, viewInfos[k + 1], k, 0, imageW, imageH, fault),
                   viewInfos, k + 1, n, imageW, imageH, fault)

\* The vector after the first n views were copied into a zero-filled vector of
\* `size` bytes.
Tiled(viewInfos, n, size, imageW, imageH, fault) ==
    CopyViews(Vector(size), viewInfos, 0, n, imageW, imageH, fault)

\* The texture object built from the buffer.
NewTexture(imageW, imageH, rows, cols, data) ==
    [width |-> imageW, height |-> imageH, depth |-> rows * cols, data |-> data]

\* A load that keeps the texture it already holds.
ReplacedIfNull(old, new) == IF old = <<>> THEN <<new>> ELSE old

\* The texture the widget holds after the assignment to lightFieldTexture.
Replaced(old, new) == <<new>>

\* Commands of the texture upload; the previous texture, if any, is destroyed by
\* the assignment to the unique_ptr.
UploadCalls(old, imageW, imageH, rows, cols) ==
    (IF old = <<>> THEN <<>>
     ELSE <<Call("destroyTexture", "lightFieldTexture", <<old[1].width, old[1].height, old[1].depth>>)>>)
    \o << Call("setSize", "lightFieldTexture", <<imageW, imageH, rows * cols>>),
          Call("allocateStorage", "lightFieldTexture", <<>>),
          Call("setData", "lightFieldTexture", <<>>) >>

\* ------------------------------------------------------------- input sets
ButtonSets == SUBSET Buttons

\* Small fixed input sets for the handlers a specification is not about.
FewPositions == { <<0, 0>>, <<1, 0>> }
FewSizes == { 1, 2 }
FewLists == { <<1>>, <<0>>, <<1, 2>>, <<1, 3>> }
FewGrids == { <<1, 1>>, <<1, 2>> }

\* The image lists and grid shapes of the load specification.
Paths == 0 .. 3

LoadLists == UNION { [1 .. n -> Paths] : n \in 1 .. MaxViews }

LoadGrids == (1 .. 2) \X (1 .. 2)

\* Lines 169-198 for one call: the number n of views copied before the loop ends
\* or meets a view of another size, and the vector after those n views.
CopyLoop(viewInfos, rows, cols, fault) ==
    LET imageW == ImageWidth(viewInfos[1])
        imageH == ImageHeight(viewInfos[1])
        n == Copied(viewInfos, 0, LoopBound(viewInfos, rows, cols), imageW, imageH)
    IN  [n |-> n] @@ Tiled(viewInfos, n, BufferSize(rows, cols, imageW, imageH), imageW, imageH, fault)

\* A call of setLightField: its arguments with the outcome of its copy loop,
\* without and with a fault at the first stray store.  The loop depends on the
\* arguments alone, so it is evaluated once per call and not once per state.
LoadCall(viewInfos, rows, cols) ==
    [viewInfos |-> viewInfos, rows |-> rows, cols |-> cols,
     done |-> CopyLoop(viewInfos, rows, cols, FALSE),
     broken |-> CopyLoop(viewInfos, rows, cols, TRUE)]

LoadCalls(L, G) == { LoadCall(v, g[1], g[2]) : v \in L, g \in G }

\* viewInfos is a non-empty sequence of paths.  A store outside the buffer is
\* undefined behaviour: the call either faults at the first such store, or goes
\* on with the stray stores landing elsewhere in memory.  done and broken are
\* CopyLoop of the arguments without and with that fault.
SetLightField(viewInfos, rows, cols, done, broken) ==
    /\ pc = "running"
    /\ shaderProgram = "linked"
    /\ Len(viewInfos) > 0
    /\ handler' = "setLightField"
    /\ lastLoad' = <<[viewInfos |-> viewInfos, rows |-> rows, cols |-> cols]>>
    /\ lfRows' = rows
    /\ lfCols' = cols
    /\ LET temp == viewInfos[1]
           imageW == ImageWidth(temp)
           imageH == ImageHeight(temp)
           bound == LoopBound(viewInfos, rows, cols)
       IN  IF ImageIsNull(temp)
           THEN /\ pc' = "aborted"
                /\ glCalls' = <<>>
                /\ UNCHANGED <<imageSize, lightFieldTexture, imageData, oobWrites, loaded>>
           ELSE /\ imageSize' = <<imageW, imageH>>
                /\ \E fault \in (IF done.oob = {} THEN {FALSE} ELSE BOOLEAN) :
                     IF fault
                     THEN /\ pc' = "crashed"
                          /\ imageData' = broken.data
                          /\ oobWrites' = broken.oob
                          /\ glCalls' = <<>>
                          /\ UNCHANGED <<lightFieldTexture, loaded>>
                     ELSE /\ imageData' = done.data
                          /\ oobWrites' = done.oob
                          /\ IF done.n < bound
                             THEN /\ pc' = "aborted"
                                  /\ glCalls' = <<>>
                                  /\ UNCHANGED <<lightFieldTexture, loaded>>
                             ELSE /\ pc' = pc
                                  /\ loaded' = TRUE
                                  /\ lightFieldTexture' =
                                         Replaced(lightFieldTexture,
                                                  NewTexture(imageW, imageH, rows, cols, done.data))
                                  /\ glCalls' = UploadCalls(lightFieldTexture, imageW, imageH, rows, cols)
    /\ UNCHANGED <<shaderProgram, paramVars, mouseVars, geometry>>

\* One step of the widget with inputs from the given sets: pointer positions P,
\* buttons B, held-button sets BS, widget sizes S, focus/aperture values V, image
\* calls of setLightField C.
Step(P, B, BS, S, V, C) ==
    \/ \E isLinked \in BOOLEAN : InitializeGL(isLinked)
    \/ \E w \in S, h \in S : ResizeGL(w, h)
    \/ PaintGL
    \/ \E pos \in P, button \in B : MousePressEvent(pos, button)
    \/ \E pos \in P, buttons \in BS : MouseMoveEvent(pos, buttons)
    \/ \E pos \in P, button \in B : MouseReleaseEvent(pos, button)
    \/ \E c \in C : SetLightField(c.viewInfos, c.rows, c.cols, c.done, c.broken)
    \/ \E value \in V : SetFocusPoint(value)
    \/ \E value \in V : SetApertureSize(value)
    \/ Animate

\* Rendering: the focus and aperture values vary.
Values == 0 .. MaxValue

FewCalls == LoadCalls(FewLists, FewGrids)

Next == Step(FewPositions, Buttons, ButtonSets, FewSizes, Values, FewCalls)

Spec == Init /\ [][Next]_vars

\* Dragging: the pointer positions vary.
DragPositions == (-MaxPos .. MaxPos) \X {0, 1}

DragSizes == { 1, 2 }

DragCalls == LoadCalls({<<1>>, <<0>>}, {<<1, 1>>})

NextDrag == Step(DragPositions, Buttons, ButtonSets, DragSizes, {DefaultFocus}, DragCalls)

SpecDrag == Init /\ [][NextDrag]_vars

\* Loading: the image lists vary.
AllCalls == LoadCalls(LoadLists, LoadGrids)

NextLoad == Step({<<0, 0>>}, {"RightButton"}, {{}}, {1}, {DefaultFocus}, AllCalls)

SpecLoad == Init /\ [][NextLoad]_vars

\* ==================================================================== claims
CallNames(calls) == { calls[i].call : i \in 1 .. Len(calls) }

\* The operands of the setUniformValue calls for one uniform.
UniformValues(calls, uniform) ==
    { calls[i].val : i \in { j \in 1 .. Len(calls) :
                               calls[j].call = "setUniformValue" /\ calls[j].name = uniform } }

\* The arguments of the most recent setLightField call.
LastViews == lastLoad[1].viewInfos
LastRows == lastLoad[1].rows
LastCols == lastLoad[1].cols
LastW == ImageWidth(LastViews[1])
LastH == ImageHeight(LastViews[1])

\* Every image of the most recent call decodes to the size of the first one.
LastAllMatch ==
    /\ ~ImageIsNull(LastViews[1])
    /\ \A i \in 1 .. Len(LastViews) :
          ImageWidth(LastViews[i]) = LastW /\ ImageHeight(LastViews[i]) = LastH

\* The most recent call was given a valid grid and returned.
LastValidReturned ==
    /\ lastLoad # <<>>
    /\ pc = "running"
    /\ LastAllMatch
    /\ Len(LastViews) = LastRows * LastCols

\* ---- C1
\* C1: the camera position stays in the unit square: 0 <= x <= 1 and 0 <= y <= 1
\* in every state, whatever mouse events and other operations were handled.
CameraClamp ==
    /\ 0 <= cameraPosition[1] /\ cameraPosition[1] <= Den
    /\ 0 <= cameraPosition[2] /\ cameraPosition[2] <= Den

\* A drag has pushed the camera into the corner x = 1, y = 0.
CameraClampWitness ==
    /\ handler = "mouseMoveEvent"
    /\ isClick
    /\ cameraPosition = <<Den, 0>>

\* ---- C2
\* C2: after setLightField returns for a valid grid (rows*cols images, all W x H),
\* the buffer it uploaded holds channel c of pixel (x, y) of the k-th image at
\* offset ((k*H + y)*W + x)*3 + c, for every k, x, y and c.
TilingCorrect ==
    LastValidReturned =>
        /\ lightFieldTexture # <<>>
        /\ lightFieldTexture[1].data = imageData
        /\ \A k \in 0 .. LastRows * LastCols - 1, y \in 0 .. LastH - 1,
              x \in 0 .. LastW - 1, c \in 0 .. 2 :
              LET off == ((k * LastH + y) * LastW + x) * 3 + c
              IN  /\ off \in DOMAIN imageData
                  /\ imageData[off] = PixelColor(LastViews[k + 1], x, y, c)

\* A 1 x 2 grid of two different 2 x 1 images was loaded.
TilingWitness ==
    /\ LastValidReturned
    /\ handler = "setLightField"
    /\ LastViews = <<1, 2>>
    /\ LastRows = 1 /\ LastCols = 2

\* ---- C3
\* C3: a call with an image whose size differs from the first image's (or that
\* does not decode) ends on the abort path, with no texture command issued.
MismatchAborts ==
    (lastLoad # <<>> /\ ~LastAllMatch /\ handler = "setLightField") =>
        /\ pc = "aborted"
        /\ glCalls = <<>>

\* ---- C4
\* C4: while no setLightField call has returned, no handler (so no render pass)
\* has issued a draw call, bound the shader or a texture, or set a uniform.
NoDrawBeforeLoad ==
    ~loaded =>
        CallNames(glCalls) \cap {"glDrawElements", "bindShader", "bindTexture", "setUniformValue"} = {}

\* A render pass ran before any load.
NoDrawBeforeLoadWitness ==
    /\ handler = "paintGL"
    /\ ~loaded
    /\ lastLoad = <<>>

\* ---- C5
\* C5: after a valid grid is loaded over an earlier one, the texture, its
\* dimensions and rows, cols and imageSize are those of the new grid alone:
\* every byte of the texture is the new grid's.
ReloadReplaces ==
    (LastValidReturned /\ handler = "setLightField") =>
        /\ lfRows = LastRows /\ lfCols = LastCols
        /\ imageSize = <<LastW, LastH>>
        /\ lightFieldTexture # <<>>
        /\ lightFieldTexture[1].width = LastW
        /\ lightFieldTexture[1].height = LastH
        /\ lightFieldTexture[1].depth = LastRows * LastCols
        /\ DOMAIN lightFieldTexture[1].data = 0 .. LastRows * LastCols * LastH * LastW * 3 - 1
        /\ \A k \in 0 .. LastRows * LastCols - 1, y \in 0 .. LastH - 1,
              x \in 0 .. LastW - 1, c \in 0 .. 2 :
              lightFieldTexture[1].data[((k * LastH + y) * LastW + x) * 3 + c]
                  = PixelColor(LastViews[k + 1], x, y, c)

\* A valid grid was loaded over a texture of other dimensions.
ReloadWitness ==
    /\ LastValidReturned
    /\ handler = "setLightField"
    /\ \E i \in 1 .. Len(glCalls) :
          /\ glCalls[i].call = "destroyTexture"
          /\ glCalls[i].val # <<LastW, LastH, LastRows * LastCols>>

\* ---- C6
\* C6: sizeHint() and minimumSizeHint() agree; the height is 512 and the width is
\* 512*W/H truncated, W x H being the first image of the most recent
\* setLightField call, and 512 x 512 before any call.
AspectRatio ==
    pc = "running" =>
        /\ minimumSizeHint = sizeHint
        /\ sizeHint[2] = 512
        /\ sizeHint[1] = IF lastLoad = <<>> THEN 512 ELSE (512 * LastW) \div LastH

\* A 1 x 3 image is loaded: 512/3 is truncated to 170.
AspectRatioWitness ==
    /\ pc = "running"
    /\ lastLoad # <<>>
    /\ LastW = 1 /\ LastH = 3
    /\ sizeHint = <<170, 512>>

\* ---- C7
\* C7: a render pass with a light field loaded passes the values last given to
\* setFocusPoint and setApertureSize (0 and 5 if never set), the camera position,
\* and the rows and cols of the most recent setLightField call, whose product is
\* the depth of the texture it binds; the accessors return the last-set values.
RenderReflectsState ==
    /\ focusPoint = lastSetFocus
    /\ apertureSize = lastSetAperture
    /\ (handler = "paintGL" /\ loaded) =>
          /\ "glDrawElements" \in CallNames(glCalls)
          /\ UniformValues(glCalls, "focusPoint") = {<<lastSetFocus>>}
          /\ UniformValues(glCalls, "apertureSize") = {<<lastSetAperture>>}
          /\ UniformValues(glCalls, "cameraPositionX") = {<<cameraPosition[1]>>}
          /\ UniformValues(glCalls, "cameraPositionY") = {<<cameraPosition[2]>>}
          /\ UniformValues(glCalls, "rows") = {<<LastRows>>}
          /\ UniformValues(glCalls, "cols") = {<<LastCols>>}
          /\ \E i \in 1 .. Len(glCalls) :
                /\ glCalls[i].call = "bindTexture"
                /\ glCalls[i].val[3] = LastRows * LastCols

\* A render pass after focus, aperture and camera were changed and a 1 x 2 grid loaded.
RenderWitness ==
    /\ handler = "paintGL"
    /\ loaded
    /\ lastSetFocus # DefaultFocus
    /\ lastSetAperture # DefaultAperture
    /\ cameraPosition # <<Den \div 2, Den \div 2>>
    /\ LastRows # LastCols

\* ---- C8
\* C8: a move event never changes the recorded press position, and a move handled
\* during a drag adds (pointer - press position) / min(width, height) to the
\* camera position, clamped to [0, 1].
DragFromPressPoint ==
    [][/\ \/ prevMouseClick' = prevMouseClick
          \/ ~\E pos \in DragPositions, buttons \in ButtonSets : MouseMoveEvent(pos, buttons)
       /\ (isClick /\ handler' = "mouseMoveEvent") =>
             \A pos \in DragPositions, buttons \in { b \in ButtonSets : "LeftButton" \in b } :
                MouseMoveEvent(pos, buttons) =>
                    LET size == IF geometry[1] < geometry[2] THEN geometry[1] ELSE geometry[2]
                        to(i) == cameraPosition[i] + ((pos[i] - prevMouseClick[i]) * Den) \div size
                        unit(v) == IF v < 0 THEN 0 ELSE IF v > Den THEN Den ELSE v
                    IN  cameraPosition' = <<unit(to(1)), unit(to(2))>>]_vars

\* A move during a drag has shifted the camera, and the press position is still
\* the one recorded at the press, away from the pointer.
DragWitness ==
    /\ handler = "mouseMoveEvent"
    /\ isClick
    /\ prevMouseClick = <<-1, 1>>
    /\ cameraPosition = <<Den, 0>>

\* ---- C9
\* C9: the camera position changes only in a move event that reports the left
\* button while isClick is set; isClick is set only by a left press and cleared
\* only by a left release; a press or release of another button leaves isClick
\* and the press position unchanged.
CameraOnlyByDrag ==
    [][/\ cameraPosition' # cameraPosition =>
             /\ isClick /\ isClick'
             /\ \E pos \in DragPositions, buttons \in ButtonSets : MouseMoveEvent(pos, buttons)
       /\ \/ cameraPosition' = cameraPosition
          \/ ~\E pos \in DragPositions, buttons \in ButtonSets :
                 MouseMoveEvent(pos, buttons) /\ ~("LeftButton" \in buttons /\ isClick)
       /\ (isClick' /\ ~isClick) => \E pos \in DragPositions : MousePressEvent(pos, "LeftButton")
       /\ (isClick /\ ~isClick') => \E pos \in DragPositions : MouseReleaseEvent(pos, "LeftButton")
       /\ \/ UNCHANGED <<isClick, prevMouseClick>>
          \/ ~\E pos \in DragPositions, button \in Buttons \ {"LeftButton"} :
                 MousePressEvent(pos, button) \/ MouseReleaseEvent(pos, button)]_vars

\* A drag moved the camera and was ended by a release; a later right-button
\* press left the drag state alone.
CameraOnlyByDragWitness ==
    /\ handler = "mousePressEvent"
    /\ ~isClick
    /\ cameraPosition # <<Den \div 2, Den \div 2>>

\* ---- C10
\* C10: a call whose images all match the first one stores only inside the
\* buffer, whatever the length of the list.
StoresInsideBuffer ==
    (lastLoad # <<>> /\ LastAllMatch) => oobWrites = {}

====
